---- MODULE Spec2Model ----
(***************************************************************************)
(* Model of clustbench_sklearn: the set_seed context manager (prng.py) and *)
(* the benchmark driver with its four runners (run_sklearn.py).            *)
(*                                                                         *)
(* Two specifications share the module:                                    *)
(*   SpecSeed  a client that opens, nests and leaves set_seed scopes and   *)
(*             draws from both generators (what test_prng.py exercises);   *)
(*   Spec      main(): method check, loading, generate_k_range, the        *)
(*             selected runner, assembly of the matrix and the output;     *)
(*             fit_predict may raise or return any labelling;              *)
(*   SpecDet   main() run twice on the same arguments, with fit_predict a  *)
(*             function of its arguments and of the generator state it is  *)
(*             called under.                                               *)
(***************************************************************************)
EXTENDS Integers, Sequences, FiniteSets, TLC

VARIABLES
    np_random,   \* state of numpy's global generator
    py_random,   \* state of Python's global `random` generator
    frames,      \* open set_seed generator frames, innermost last
    exc,         \* TRUE while an exception raised in a block is propagating
    lvl,         \* history: per open level, where its stream started and the draws made in it
    ev,          \* history: the last operation performed
    pc,          \* where main() is
    method,      \* args.method
    truth,       \* the loaded true labels
    X,           \* the loaded dataset, one entry per row
    args_seed,   \* args.seed
    Ks,          \* the dict generate_k_range returned, as <<key, value>> entries in insertion order
    res,         \* the runner's dict res, as <<key, value>> entries in insertion order
    ia, ib,      \* positions of the runner's two grid loops
    islot,       \* position of the runner's loop over Ks.keys()
    curr,        \* what the runner returned
    outfile,     \* the file written by np.savetxt
    err,         \* the uncaught exception that ended main(), if any
    files,       \* the two input files: what np.loadtxt will return for each
    hist,        \* history: per slot, the attempts made for it
    cap,         \* the clustering capability behind fit_predict
    run,         \* 1 in the first execution of main(), 2 in the second
    first        \* history: how the first execution ended

genVars == <<np_random, py_random, frames, exc>>
runVars == <<pc, method, truth, X, args_seed, Ks, res, ia, ib, islot, curr, outfile, err, files, hist>>
detVars == <<cap, run, first>>
seedVars == <<np_random, py_random, frames, exc, lvl, ev>>
vars == <<np_random, py_random, frames, exc, lvl, ev, pc, method, truth, X, args_seed, Ks, res,
          ia, ib, islot, curr, outfile, err, files, hist, cap, run, first>>

\* --------------------------------------------------------------------------
\* Bounds
\* --------------------------------------------------------------------------
MaxDepth == 2    \* deepest nesting of set_seed scopes explored
MaxDraws == 2    \* draws made from one pair of generator streams (both families together)

\* Python's None for the seed argument; every integer seed is >= 0.
None == -1
Seeds == {42, 43}
SeedArgs == Seeds \cup {None}
AmbientOrigins == {1000, 1001}   \* stand for arbitrary ambient generator states

\* --------------------------------------------------------------------------
\* Generators.  A generator state is the stream it is on (fixed by the last
\* seeding, or by the ambient state the process started with) and the
\* position in that stream.  The two families produce different values.
\* --------------------------------------------------------------------------
SeedRng(s) == [origin |-> s, pos |-> 0]
Advance(st, n) == [st EXCEPT !.pos = @ + n]
NpValue(st) == <<"np", st.origin, st.pos>>
PyValue(st) == <<"py", st.origin, st.pos>>

\* --------------------------------------------------------------------------
\* set_seed (prng.py).  g is the generator environment
\* [np, py, frames]; entering runs the generator up to its yield, leaving
\* resumes it after the yield (normally, or with the exception thrown in).
\* --------------------------------------------------------------------------
NoState == [origin |-> None, pos |-> 0]

\* Variant of set_seed_enter without the test "if seed is None": the states
\* are saved and both generators are seeded with None.
set_seed_enter_no_none_test(seed, g) ==
    [np |-> SeedRng(seed),
     py |-> SeedRng(seed),
     frames |-> Append(g.frames, [seed |-> seed, np_state |-> g.np, py_state |-> g.py])]

\* Variant of set_seed_enter without the line random.seed(seed).
set_seed_enter_np_only(seed, g) ==
    IF seed = None
    THEN [g EXCEPT !.frames = Append(@, [seed |-> None, np_state |-> NoState, py_state |-> NoState])]
    ELSE [np |-> SeedRng(seed),
          py |-> g.py,
          frames |-> Append(g.frames, [seed |-> seed, np_state |-> g.np, py_state |-> g.py])]

set_seed_enter(seed, g) ==
    IF seed = None
    THEN [g EXCEPT !.frames = Append(@, [seed |-> None, np_state |-> NoState, py_state |-> NoState])]
    ELSE [np |-> SeedRng(seed),
          py |-> SeedRng(seed),
          frames |-> Append(g.frames, [seed |-> seed, np_state |-> g.np, py_state |-> g.py])]

Pop(s) == SubSeq(s, 1, Len(s) - 1)
Top(s) == s[Len(s)]

\* Variant of set_seed_exit whose restore is not in a finally clause: an
\* exception thrown in at the yield skips it.
set_seed_exit_no_finally(g, raised) ==
    LET f == Top(g.frames) IN
    IF f.seed = None \/ raised
    THEN [g EXCEPT !.frames = Pop(@)]
    ELSE [np |-> f.np_state, py |-> f.py_state, frames |-> Pop(g.frames)]

\* Variant of set_seed_exit that rewinds the saved streams to their start
\* instead of restoring the saved states.
set_seed_exit_reset(g, raised) ==
    LET f == Top(g.frames) IN
    IF f.seed = None
    THEN [g EXCEPT !.frames = Pop(@)]
    ELSE [np |-> [f.np_state EXCEPT !.pos = 0],
          py |-> [f.py_state EXCEPT !.pos = 0],
          frames |-> Pop(g.frames)]

\* Variant of set_seed_exit without the line random.setstate(py_state).
set_seed_exit_np_only(g, raised) ==
    LET f == Top(g.frames) IN
    IF f.seed = None
    THEN [g EXCEPT !.frames = Pop(@)]
    ELSE [np |-> f.np_state, py |-> g.py, frames |-> Pop(g.frames)]

\* raised: the block left by an exception (thrown in at the yield); the
\* finally clause runs on either path, and the exception is not swallowed.
set_seed_exit(g, raised) ==
    LET f == Top(g.frames) IN
    IF f.seed = None
    THEN [g EXCEPT !.frames = Pop(@)]
    ELSE [np |-> f.np_state, py |-> f.py_state, frames |-> Pop(g.frames)]

Env == [np |-> np_random, py |-> py_random, frames |-> frames]

\* --------------------------------------------------------------------------
\* History kept beside the code's state: what each open level's stream is
\* expected to be, counted independently of the saved states in `frames`.
\* --------------------------------------------------------------------------
\* np0, py0: the state the level's streams start from; nNp, nPy: the draws made
\* directly in the level; atNp, atPy: the generators as they were when the
\* level was entered.
Level(seed, np0, py0, atNp, atPy) ==
    [seed |-> seed, np0 |-> np0, py0 |-> py0, nNp |-> 0, nPy |-> 0, atNp |-> atNp, atPy |-> atPy]

\* The last operation.  For a draw: kind is the family, idx the number of
\* draws of that family made before it directly in the same scope, val the
\* value drawn.  For an exit: kind is the exit path, idx the number of draws
\* made directly in the scope, val the generators as they were at its entry.
Event(op, kind, seed, idx, val) == [op |-> op, kind |-> kind, seed |-> seed, idx |-> idx, val |-> val]

ExpectedNp == Advance(Top(lvl).np0, Top(lvl).nNp)
ExpectedPy == Advance(Top(lvl).py0, Top(lvl).nPy)

\* Leaving a level: a seeded scope's draws are forgotten by the parent, an
\* unseeded scope's draws were made on the parent's stream.
LeaveLevel(l) ==
    LET c == Top(l)
        p == l[Len(l) - 1]
        q == IF c.seed = None
             THEN [p EXCEPT !.nNp = @ + c.nNp, !.nPy = @ + c.nPy]
             ELSE p
    IN  [Pop(l) EXCEPT ![Len(l) - 1] = q]

\* --------------------------------------------------------------------------
\* SpecSeed: a client of set_seed
\* --------------------------------------------------------------------------
RunnerIdle ==
    /\ pc = "idle"
    /\ method = "none"
    /\ truth = <<>>
    /\ X = <<>>
    /\ args_seed = None
    /\ Ks = <<>>
    /\ res = <<>>
    /\ ia = 0
    /\ ib = 0
    /\ islot = 0
    /\ curr = <<>>
    /\ outfile = <<>>
    /\ err = "none"
    /\ files = <<>>
    /\ hist = <<>>
    /\ cap = [det |-> FALSE, id |-> 0]
    /\ run = 1
    /\ first = <<>>

SeedInit ==
    /\ RunnerIdle
    /\ \E a \in AmbientOrigins :
          /\ np_random = [origin |-> a, pos |-> 0]
          /\ py_random = [origin |-> a, pos |-> 0]
          /\ lvl = <<Level(None, [origin |-> a, pos |-> 0], [origin |-> a, pos |-> 0],
                          [origin |-> a, pos |-> 0], [origin |-> a, pos |-> 0])>>
    /\ frames = <<>>
    /\ exc = FALSE
    /\ ev = Event("init", "none", None, 0, <<>>)

\* with set_seed(seed):
Enter(seed) ==
    /\ ~exc
    /\ Len(frames) < MaxDepth
    /\ LET g == set_seed_enter(seed, Env) IN
          /\ np_random' = g.np
          /\ py_random' = g.py
          /\ frames' = g.frames
    /\ lvl' = Append(lvl, IF seed = None
                          THEN Level(None, ExpectedNp, ExpectedPy, np_random, py_random)
                          ELSE Level(seed, SeedRng(seed), SeedRng(seed), np_random, py_random))
    /\ ev' = Event("enter", "none", seed, 0, <<>>)
    /\ UNCHANGED exc

\* np.random.rand() in the block (or at top level)
DrawNp ==
    /\ ~exc
    /\ np_random.pos + py_random.pos < MaxDraws
    /\ np_random' = Advance(np_random, 1)
    /\ lvl' = [lvl EXCEPT ![Len(lvl)].nNp = @ + 1]
    /\ ev' = Event("draw", "np", Top(lvl).seed, Top(lvl).nNp, NpValue(np_random))
    /\ UNCHANGED <<py_random, frames, exc>>

\* random.random() in the block (or at top level)
DrawPy ==
    /\ ~exc
    /\ np_random.pos + py_random.pos < MaxDraws
    /\ py_random' = Advance(py_random, 1)
    /\ lvl' = [lvl EXCEPT ![Len(lvl)].nPy = @ + 1]
    /\ ev' = Event("draw", "py", Top(lvl).seed, Top(lvl).nPy, PyValue(py_random))
    /\ UNCHANGED <<np_random, frames, exc>>

\* The block raises.
Raise ==
    /\ ~exc
    /\ Len(frames) > 0
    /\ exc' = TRUE
    /\ ev' = Event("raise", "none", Top(frames).seed, 0, <<>>)
    /\ UNCHANGED <<np_random, py_random, frames, lvl>>

\* The innermost scope is left: the block completed ("normal"), a break left
\* an enclosing loop ("break"), or the exception in flight unwinds it
\* ("raise"); the exception keeps propagating.
Exit(kind) ==
    /\ Len(frames) > 0
    /\ exc <=> (kind = "raise")
    /\ LET g == set_seed_exit(Env, kind = "raise") IN
          /\ np_random' = g.np
          /\ py_random' = g.py
          /\ frames' = g.frames
    /\ lvl' = LeaveLevel(lvl)
    /\ ev' = Event("exit", kind, Top(frames).seed, Top(lvl).nNp + Top(lvl).nPy,
                    <<Top(lvl).atNp, Top(lvl).atPy>>)
    /\ UNCHANGED exc

\* An except clause around the with statement, or the caller, handles the
\* exception.
Catch ==
    /\ exc
    /\ exc' = FALSE
    /\ ev' = Event("catch", "none", None, 0, <<>>)
    /\ UNCHANGED <<np_random, py_random, frames, lvl>>

SeedNext ==
    /\ \/ \E s \in SeedArgs : Enter(s)
       \/ DrawNp
       \/ DrawPy
       \/ Raise
       \/ \E kind \in {"normal", "break", "raise"} : Exit(kind)
       \/ Catch
    /\ UNCHANGED <<runVars, detVars>>

SpecSeed == SeedInit /\ [][SeedNext]_vars

\* --------------------------------------------------------------------------
\* run_sklearn.py: data
\* --------------------------------------------------------------------------
MaxK == 5          \* largest true label in the input
MaxLabel0 == 2     \* largest zero-based label an estimator returns
FitDraws == 1      \* draws one fit_predict call makes from numpy's global generator
NumCapabilities == 5   \* capabilities SpecDet runs main() with

DefaultSeed == 123
NumSlots == 5
VALID_METHODS == {"birch", "kmeans", "spectral", "gm"}
Methods == VALID_METHODS \cup {"dbscan"}
RunSeeds == {DefaultSeed}
Ambient == [origin |-> 1000, pos |-> 0]   \* the generators as the process starts with them

\* Input files: a dataset of N rows and a true labelling of the same length.
\* The one-row dataset comes with every true count up to MaxK, the two-row
\* dataset with the labelling that puts both rows in cluster 1.
Datasets == {<<<<0>>>>, <<<<0>>, <<1>>>>}
TrueLabels(n) == IF n = 1 THEN {<<j>> : j \in 1..MaxK} ELSE {[i \in 1..n |-> 1]}

BranchingFactors == <<10, 50, 100>>
Thresholds == <<"0.005", "0.01", "0.025", "0.05", "0.1", "0.25", "0.5", "1.0">>
Affinities == <<"rbf", "laplacian", "poly", "sigmoid">>
Gammas == <<"0.25", "0.5", "1.0", "2.5", "5.0">>

Range(v) == {v[i] : i \in 1..Len(v)}
SeqMax(v) == CHOOSE m \in Range(v) : \A x \in Range(v) : x <= m
SeqMin(v) == CHOOSE m \in Range(v) : \A x \in Range(v) : m <= x
NUnique(v) == Cardinality(Range(v))
Repeat(x, n) == [i \in 1..n |-> x]
Ones(n) == Repeat(1, n)
Plus1(v) == [i \in 1..Len(v) |-> v[i] + 1]

\* A Python dict, in insertion order.
DictHas(d, key) == \E i \in 1..Len(d) : d[i][1] = key
DictGet(d, key) == d[CHOOSE i \in 1..Len(d) : d[i][1] = key][2]
DictSet(d, key, val) ==
    IF DictHas(d, key)
    THEN [i \in 1..Len(d) |-> IF d[i][1] = key THEN <<key, val>> ELSE d[i]]
    ELSE Append(d, <<key, val>>)
Keys(d) == [i \in 1..Len(d) |-> d[i][1]]
Values(d) == [i \in 1..Len(d) |-> d[i][2]]

\* The values a runner's res holds: dict() or a label array.
EmptyDict == [kind |-> "dict", v |-> <<>>]
Arr(v) == [kind |-> "array", v |-> v]

\* Variant of replace that clamps at 1.
replace_at_one(x) == IF x >= 1 THEN x ELSE 1

replace(x) == IF x >= 2 THEN x ELSE 2

generate_k_range(k) ==
    LET raw == <<k - 2, k - 1, k, k + 1, k + 2>>
        ids == [i \in 1..NumSlots |-> i - 1]
    IN  [i \in 1..NumSlots |-> <<ids[i], replace(raw[i])>>]

\* for K in Ks.keys(): res[K] = dict()
Prepopulated(ks) == [i \in 1..Len(ks) |-> <<ks[i][1], EmptyDict>>]

\* The loop "Make sure all K_ids have an entry", from the i-th key on.
RECURSIVE FillMissing(_, _, _, _)
FillMissing(d, ks, i, n) ==
    IF i > Len(ks) THEN d
    ELSE FillMissing(IF DictHas(d, ks[i][1]) THEN d ELSE DictSet(d, ks[i][1], Arr(Ones(n))),
                     ks, i + 1, n)

\* np.array([res[key] for key in res.keys()]).T: the values become the
\* columns.  A list that mixes dict() with arrays is ragged: numpy raises
\* ValueError from 1.24 on and builds a one-dimensional object array before;
\* a list of dict() alone is a one-dimensional object array.
NpArrayT(d) ==
    LET vals == Values(d)
        idx == 1..Len(vals)
        Matrix == [kind |-> "matrix", cols |-> [i \in idx |-> vals[i].v]]
        Objects == [kind |-> "objects", cols |-> <<>>]
        Raised == [kind |-> "raise", cols |-> <<>>]
    IN  IF /\ \A i \in idx : vals[i].kind = "array"
           /\ \A i, j \in idx : Len(vals[i].v) = Len(vals[j].v)
        THEN {Matrix}
        ELSE IF \A i \in idx : vals[i].kind = "dict"
        THEN {Objects}
        ELSE {Objects, Raised}

\* header = ['k=%s'%s for s in Ks.values()]
Header(ks) == [i \in 1..Len(ks) |-> <<"k=", ks[i][2]>>]

\* What fit_predict of an estimator built for K clusters can do: raise, or
\* return one zero-based label below K per row.
FitOutcomes(n, K) ==
    {[kind |-> "raise", v |-> <<>>]} \cup
    {[kind |-> "labels", v |-> v] : v \in [1..n -> 0..(IF K - 1 < MaxLabel0 THEN K - 1 ELSE MaxLabel0)]}

\* A clustering capability is a function of the estimator's parameters (K and
\* the grid cell cfg), of the dataset and of numpy's generator state at the
\* call.  Capability(c, ...) is the c-th of a family of such functions: which
\* of the outcomes of FitOutcomes(n, K) it yields.
Capability(c, K, cfg, g, n) ==
    LET L == (IF K - 1 < MaxLabel0 THEN K - 1 ELSE MaxLabel0) + 1
        NV == L ^ n
        idx == (c + K + 7 * cfg + g.np.origin + 3 * g.np.pos) % (NV + 1)
    IN  IF idx = 0
        THEN [kind |-> "raise", v |-> <<>>]
        ELSE [kind |-> "labels",
              v |-> [i \in 1..n |-> ((idx - 1) \div (L ^ (i - 1))) % L]]

\* The outcomes of one fit_predict call: any, or the one the capability of
\* this run yields.
Outcomes(K, cfg, g, n) ==
    IF cap.det THEN {Capability(cap.id, K, cfg, g, n)} ELSE FitOutcomes(n, K)

\* What a fit_predict call does to the generators it runs under.
fit_predict(g) == [g EXCEPT !.np = Advance(@, FitDraws)]

NoAttempts == [i \in 1..NumSlots |-> [n |-> 0, q |-> FALSE, want |-> <<>>]]

\* One attempt, as history: the cell and the cell attempted before it, the
\* scopes open when fit_predict was called (g is the environment of the
\* call) and the generators it was called under.
Attempt(cell, g) ==
    [op |-> "attempt", cell |-> cell,
     prev |-> IF ev.op = "attempt" THEN ev.cell ELSE <<>>,
     depth |-> Len(g.frames),
     scope |-> IF Len(g.frames) > 0 THEN Top(g.frames).seed ELSE None,
     np |-> g.np,
     py |-> g.py]

\* n: attempts made for the slot (counted where every slot gets the same
\* number); q: one of them qualified; want: the labels of the last
\* (RecordLast) or first (RecordFirst) attempt that qualified.
RecordLast(h, i, qual, labels) ==
    [h EXCEPT ![i] = [n |-> @.n + 1,
                      q |-> @.q \/ qual,
                      want |-> IF qual THEN labels ELSE @.want]]

RecordFirst(h, i, qual, labels) ==
    [h EXCEPT ![i] = [n |-> @.n,
                      q |-> @.q \/ qual,
                      want |-> IF qual /\ ~@.q THEN labels ELSE @.want]]

\* --------------------------------------------------------------------------
\* Spec: main()
\* --------------------------------------------------------------------------
InitRun ==
    /\ pc = "start"
    /\ method \in Methods
    /\ args_seed \in RunSeeds
    /\ \E d \in Datasets : \E t \in TrueLabels(Len(d)) :
          files = [true_labels |-> t, matrix |-> d]
    /\ truth = <<>>
    /\ X = <<>>
    /\ Ks = <<>>
    /\ res = <<>>
    /\ ia = 0
    /\ ib = 0
    /\ islot = 0
    /\ curr = <<>>
    /\ outfile = <<>>
    /\ err = "none"
    /\ hist = NoAttempts
    /\ np_random = Ambient
    /\ py_random = Ambient
    /\ frames = <<>>
    /\ exc = FALSE
    /\ lvl = <<>>
    /\ ev = [op |-> "init"]
    /\ run = 1
    /\ first = <<>>

\* fit_predict may do anything an estimator can do.
Init ==
    /\ InitRun
    /\ cap = [det |-> FALSE, id |-> 0]

\* fit_predict is one of the functions Capability.
InitDet ==
    /\ InitRun
    /\ \E c \in 0..(NumCapabilities - 1) : cap = [det |-> TRUE, id |-> c]

\* Variant of Main_CheckMethod without the test of lines 217-218: an unknown
\* method is only met by the else branch after the dispatch.
Main_CheckMethodAbsent ==
    /\ pc = "start"
    /\ pc' = "load"
    /\ ev' = [op |-> "check"]
    /\ UNCHANGED <<genVars, lvl, method, truth, X, args_seed, Ks, res, ia, ib, islot,
                   curr, outfile, err, files, hist>>

\* if args.method not in VALID_METHODS: raise ValueError
Main_CheckMethod ==
    /\ pc = "start"
    /\ IF method \notin VALID_METHODS
       THEN /\ pc' = "error"
            /\ err' = "ValueError: Invalid method"
       ELSE /\ pc' = "load"
            /\ UNCHANGED err
    /\ ev' = [op |-> "check"]
    /\ UNCHANGED <<genVars, lvl, method, truth, X, args_seed, Ks, res, ia, ib, islot,
                   curr, outfile, files, hist>>

\* load_labels, k = int(max(truth)), generate_k_range, load_dataset, and the
\* call of the selected runner up to its first loop.
Main_Load ==
    /\ pc = "load"
    /\ truth' = files.true_labels
    /\ Ks' = generate_k_range(SeqMax(files.true_labels))
    /\ X' = files.matrix
    /\ res' = IF method \in {"birch", "kmeans"} THEN Prepopulated(Ks') ELSE <<>>
    /\ ia' = 1
    /\ ib' = 1
    /\ islot' = 1
    /\ pc' = method
    /\ ev' = [op |-> "load"]
    /\ UNCHANGED <<genVars, lvl, method, args_seed, curr, outfile, err, files, hist>>

\* Variant of BirchStore that keeps the first qualifying result of a slot.
BirchStoreFirst(d, K_id, K, labels_pred) ==
    IF SeqMax(labels_pred) = K /\ DictGet(d, K_id) = EmptyDict
    THEN DictSet(d, K_id, Arr(labels_pred))
    ELSE d

\* if labels_pred.max() == K: res[K_id] = labels_pred
BirchStore(d, K_id, K, labels_pred) ==
    IF SeqMax(labels_pred) = K THEN DictSet(d, K_id, Arr(labels_pred)) ELSE d

\* The three for statements of do_birch: the cell after <<a, b, i>>, or <<>>
\* when the loops are over.
BirchAdvance(a, b, i) ==
    IF i < NumSlots THEN <<a, b, i + 1>>
    ELSE IF b < Len(Thresholds) THEN <<a, b + 1, 1>>
    ELSE IF a < Len(BranchingFactors) THEN <<a + 1, 1, 1>>
    ELSE <<>>

\* One pass of do_birch's innermost loop body: the try statement for the
\* cell (branching_factor, threshold, slot), then the loops advance.
BirchAttempt ==
    /\ pc = "birch"
    /\ \E out \in Outcomes(DictGet(Ks, Keys(Ks)[islot]),
                           (ia - 1) * Len(Thresholds) + (ib - 1),
                           set_seed_enter(args_seed, Env), Len(X)) :
          LET K_id == Keys(Ks)[islot]
              K == DictGet(Ks, K_id)
              g1 == set_seed_enter(args_seed, Env)
              g2 == fit_predict(g1)
              raised == out.kind = "raise"
              g3 == set_seed_exit(g2, raised)
              labels_pred == Plus1(out.v)
          IN  /\ res' = IF raised THEN res ELSE BirchStore(res, K_id, K, labels_pred)
              /\ np_random' = g3.np
              /\ py_random' = g3.py
              /\ frames' = g3.frames
              /\ ev' = Attempt(<<ia, ib, islot>>, g1)
              /\ hist' = RecordLast(hist, islot,
                                    ~raised /\ SeqMax(labels_pred) = K, labels_pred)
    /\ LET c == BirchAdvance(ia, ib, islot) IN
          IF c # <<>>
          THEN /\ ia' = c[1]
               /\ ib' = c[2]
               /\ islot' = c[3]
               /\ UNCHANGED pc
          ELSE /\ pc' = "birch_end"
               /\ UNCHANGED <<ia, ib, islot>>
    /\ UNCHANGED <<exc, lvl, method, truth, X, args_seed, Ks, curr, outfile, err, files>>

\* The end of a runner: the result list is turned into an array and
\* returned to main(), or np.array raises.
Return(d) ==
    \E arr \in NpArrayT(d) :
        IF arr.kind = "raise"
        THEN /\ pc' = "error"
             /\ err' = "ValueError: inhomogeneous shape"
             /\ UNCHANGED curr
        ELSE /\ pc' = "returned"
             /\ curr' = arr
             /\ UNCHANGED err

\* do_birch after the grid: the loop over missing keys, np.array, return.
BirchReturn ==
    /\ pc = "birch_end"
    /\ res' = FillMissing(res, Ks, 1, Len(X))
    /\ Return(res')
    /\ ev' = [op |-> "return"]
    /\ UNCHANGED <<genVars, lvl, method, truth, X, args_seed, Ks, ia, ib, islot,
                   outfile, files, hist>>

\* Variant of SpectralAsserts without the assert on the number of distinct
\* labels.
SpectralAssertsNoUnique(labels_pred, K, n) ==
    /\ SeqMin(labels_pred) = 1
    /\ SeqMax(labels_pred) = K
    /\ Len(labels_pred) = n

\* The four assert statements of do_spectral.
SpectralAsserts(labels_pred, K, n) ==
    /\ SeqMin(labels_pred) = 1
    /\ SeqMax(labels_pred) = K
    /\ Len(labels_pred) = n
    /\ NUnique(labels_pred) = K

\* Variant of SpectralAdvance without "if K_id in res: break".
SpectralAdvanceNoOuterBreak(i, a, b, broke, has) ==
    IF ~broke /\ b < Len(Gammas) THEN <<i, a, b + 1>>
    ELSE IF a < Len(Affinities) THEN <<i, a + 1, 1>>
    ELSE IF i < NumSlots THEN <<i + 1, 1, 1>>
    ELSE <<>>

\* The three for statements of do_spectral with their two break statements:
\* the cell after <<i, a, b>>, or <<>> when the loops are over.  broke: the
\* inner break was taken; has: K_id in res, tested after the inner loop.
SpectralAdvance(i, a, b, broke, has) ==
    IF ~broke /\ b < Len(Gammas) THEN <<i, a, b + 1>>
    ELSE IF ~has /\ a < Len(Affinities) THEN <<i, a + 1, 1>>
    ELSE IF i < NumSlots THEN <<i + 1, 1, 1>>
    ELSE <<>>

\* One pass of do_spectral's innermost loop body: the try statement for the
\* cell (slot, affinity, gamma), then the break statements and the loops.
\* A failed assert leaves the with block by AssertionError, the break leaves
\* it normally; the except clause swallows every exception.  The history
\* keeps what fit_predict did.
SpectralAttempt ==
    /\ pc = "spectral"
    /\ \E out \in Outcomes(DictGet(Ks, Keys(Ks)[islot]),
                           (ia - 1) * Len(Gammas) + (ib - 1),
                           set_seed_enter(args_seed, Env), Len(X)) :
          LET K_id == Keys(Ks)[islot]
              K == DictGet(Ks, K_id)
              g1 == set_seed_enter(args_seed, Env)
              g2 == fit_predict(g1)
              raised == out.kind = "raise"
              labels_pred == Plus1(out.v)
              asserted == ~raised /\ SpectralAsserts(labels_pred, K, Len(X))
              g3 == set_seed_exit(g2, ~asserted)
          IN  /\ res' = IF asserted THEN DictSet(res, K_id, Arr(labels_pred)) ELSE res
              /\ np_random' = g3.np
              /\ py_random' = g3.py
              /\ frames' = g3.frames
              /\ ev' = Attempt(<<islot, ia, ib>>, g1) @@ ("raised" :> raised) @@ ("out" :> out.v)
              /\ hist' = RecordFirst(hist, islot,
                                     /\ ~raised
                                     /\ SeqMin(labels_pred) = 1
                                     /\ SeqMax(labels_pred) = K
                                     /\ Len(labels_pred) = Len(X)
                                     /\ NUnique(labels_pred) = K,
                                     labels_pred)
              /\ LET c == SpectralAdvance(islot, ia, ib, asserted, DictHas(res', K_id)) IN
                    IF c # <<>>
                    THEN /\ islot' = c[1]
                         /\ ia' = c[2]
                         /\ ib' = c[3]
                         /\ UNCHANGED pc
                    ELSE /\ pc' = "spectral_end"
                         /\ UNCHANGED <<ia, ib, islot>>
    /\ UNCHANGED <<exc, lvl, method, truth, X, args_seed, Ks, curr, outfile, err, files>>

\* Variant of SpectralReturn without the loop over missing keys.
SpectralReturnNoFill ==
    /\ pc = "spectral_end"
    /\ res' = res
    /\ Return(res')
    /\ ev' = [op |-> "return"]
    /\ UNCHANGED <<genVars, lvl, method, truth, X, args_seed, Ks, ia, ib, islot,
                   outfile, files, hist>>

\* do_spectral after the sweep: the loop over missing keys, np.array, return.
SpectralReturn ==
    /\ pc = "spectral_end"
    /\ res' = FillMissing(res, Ks, 1, Len(X))
    /\ Return(res')
    /\ ev' = [op |-> "return"]
    /\ UNCHANGED <<genVars, lvl, method, truth, X, args_seed, Ks, ia, ib, islot,
                   outfile, files, hist>>

\* One pass of do_kmeans's loop: the with block holds the constructor only,
\* fit_predict is called after it; nothing catches what fit_predict raises.
KmeansAttempt ==
    /\ pc = "kmeans"
    /\ \E out \in Outcomes(DictGet(Ks, Keys(Ks)[islot]), 0,
                           set_seed_exit(set_seed_enter(args_seed, Env), FALSE), Len(X)) :
          LET K_id == Keys(Ks)[islot]
              g1 == set_seed_enter(args_seed, Env)
              g2 == set_seed_exit(g1, FALSE)
              g3 == fit_predict(g2)
              raised == out.kind = "raise"
              labels_pred == Plus1(out.v)
          IN  /\ np_random' = g3.np
              /\ py_random' = g3.py
              /\ frames' = g3.frames
              /\ ev' = Attempt(<<islot>>, g2)
              /\ IF raised
                 THEN /\ pc' = "error"
                      /\ err' = "fit_predict raised"
                      /\ UNCHANGED <<res, islot>>
                 ELSE /\ res' = DictSet(res, K_id, Arr(labels_pred))
                      /\ UNCHANGED err
                      /\ IF islot < Len(Ks)
                         THEN /\ islot' = islot + 1
                              /\ UNCHANGED pc
                         ELSE /\ pc' = "kmeans_end"
                              /\ UNCHANGED islot
    /\ UNCHANGED <<exc, lvl, method, truth, X, args_seed, Ks, ia, ib, curr, outfile, files, hist>>

KmeansReturn ==
    /\ pc = "kmeans_end"
    /\ Return(res)
    /\ ev' = [op |-> "return"]
    /\ UNCHANGED <<genVars, lvl, method, truth, X, args_seed, Ks, res, ia, ib, islot,
                   outfile, files, hist>>

\* Variant of GmStore that keeps the labels whatever their number.
GmStoreNoCollapse(d, K_id, K, labels_pred) == DictSet(d, K_id, Arr(labels_pred))

\* if len(np.unique(labels_pred)) != K: res[K_id] = np.repeat(K, len(labels_pred))
\* else: res[K_id] = labels_pred
GmStore(d, K_id, K, labels_pred) ==
    IF NUnique(labels_pred) # K
    THEN DictSet(d, K_id, Arr(Repeat(K, Len(labels_pred))))
    ELSE DictSet(d, K_id, Arr(labels_pred))

\* One pass of do_gm's loop: fit_predict inside the with block, the collapse
\* fallback; nothing catches what fit_predict raises.  The history keeps
\* what fit_predict returned.
GmAttempt ==
    /\ pc = "gm"
    /\ \E out \in Outcomes(DictGet(Ks, Keys(Ks)[islot]), 0,
                           set_seed_enter(args_seed, Env), Len(X)) :
          LET K_id == Keys(Ks)[islot]
              K == DictGet(Ks, K_id)
              g1 == set_seed_enter(args_seed, Env)
              g2 == fit_predict(g1)
              raised == out.kind = "raise"
              g3 == set_seed_exit(g2, raised)
              labels_pred == Plus1(out.v)
          IN  /\ np_random' = g3.np
              /\ py_random' = g3.py
              /\ frames' = g3.frames
              /\ ev' = Attempt(<<islot>>, g1) @@ ("out" :> out.v)
              /\ IF raised
                 THEN /\ pc' = "error"
                      /\ err' = "fit_predict raised"
                      /\ UNCHANGED <<res, islot>>
                 ELSE /\ res' = GmStore(res, K_id, K, labels_pred)
                      /\ UNCHANGED err
                      /\ IF islot < Len(Ks)
                         THEN /\ islot' = islot + 1
                              /\ UNCHANGED pc
                         ELSE /\ pc' = "gm_end"
                              /\ UNCHANGED islot
    /\ UNCHANGED <<exc, lvl, method, truth, X, args_seed, Ks, ia, ib, curr, outfile, files, hist>>

GmReturn ==
    /\ pc = "gm_end"
    /\ Return(res)
    /\ ev' = [op |-> "return"]
    /\ UNCHANGED <<genVars, lvl, method, truth, X, args_seed, Ks, res, ia, ib, islot,
                   outfile, files, hist>>

\* main() after the runner: the header row is put on top of the matrix with
\* np.append(..., axis=0), which needs a two-dimensional array of five
\* columns, and the file is written.
Main_Write ==
    /\ pc = "returned"
    /\ IF curr.kind = "matrix" /\ Len(curr.cols) = NumSlots
       THEN /\ outfile' = [header |-> Header(Ks), cols |-> curr.cols]
            /\ pc' = "done"
            /\ UNCHANGED err
       ELSE /\ pc' = "error"
            /\ err' = "ValueError: np.append dimensions"
            /\ UNCHANGED outfile
    /\ ev' = [op |-> "write"]
    /\ UNCHANGED <<genVars, lvl, method, truth, X, args_seed, Ks, res, ia, ib, islot,
                   curr, files, hist>>

Main ==
    \/ Main_CheckMethod
    \/ Main_Load
    \/ BirchAttempt
    \/ BirchReturn
    \/ SpectralAttempt
    \/ SpectralReturn
    \/ KmeansAttempt
    \/ KmeansReturn
    \/ GmAttempt
    \/ GmReturn
    \/ Main_Write

Next == Main /\ UNCHANGED detVars

Spec == Init /\ [][Next]_vars

\* The program is started a second time with the same arguments and input
\* files, in a new process whose generators start in a state of their own.
Main_Rerun ==
    /\ pc \in {"done", "error"}
    /\ run = 1
    /\ run' = 2
    /\ first' = [pc |-> pc, err |-> err, outfile |-> outfile, res |-> res]
    /\ pc' = "start"
    /\ truth' = <<>>
    /\ X' = <<>>
    /\ Ks' = <<>>
    /\ res' = <<>>
    /\ ia' = 0
    /\ ib' = 0
    /\ islot' = 0
    /\ curr' = <<>>
    /\ outfile' = <<>>
    /\ err' = "none"
    /\ hist' = NoAttempts
    /\ \E a \in AmbientOrigins :
          /\ np_random' = [origin |-> a, pos |-> 0]
          /\ py_random' = [origin |-> a, pos |-> 0]
    /\ ev' = [op |-> "init"]
    /\ UNCHANGED <<frames, exc, lvl, method, args_seed, files, cap>>

NextDet ==
    \/ Main /\ UNCHANGED detVars
    \/ Main_Rerun

SpecDet == InitDet /\ [][NextDet]_vars

\* --------------------------------------------------------------------------
\* Properties
\* --------------------------------------------------------------------------
KeyOf(i) == Ks[i][1]
Slots == 1..NumSlots
FullGrid == Len(BranchingFactors) * Len(Thresholds)

\* A grid runner has gone through its whole grid and its closing loop.
GridRunnerOver ==
    /\ method \in {"birch", "spectral"}
    /\ pc \in {"returned", "done", "error"}
    /\ err # "ValueError: Invalid method"

\* C1: once a grid runner (do_birch, do_spectral) is through its grid, every
\* slot for which no attempt qualified holds the all-ones vector of length N.
C1_FallbackAllOnes ==
    GridRunnerOver =>
        \A i \in Slots :
            ~hist[i].q => /\ DictHas(res, KeyOf(i))
                          /\ DictGet(res, KeyOf(i)) = Arr(Ones(Len(X)))

\* C2: in the file written, column j holds the accepted result of slot id j
\* and header entry j is "k=" followed by the target count of slot j.
C2_ColumnsInSlotOrder ==
    pc = "done" =>
        \A i \in Slots :
            /\ Arr(outfile.cols[i]) = DictGet(res, i - 1)
            /\ outfile.header[i] = <<"k=", DictGet(Ks, i - 1)>>

\* C3: a run with a valid method never ends in an uncaught exception, and the
\* matrix it writes has N rows and 5 columns.
C3_CompleteMatrix ==
    /\ method \in VALID_METHODS => pc # "error"
    /\ pc = "done" => /\ Len(outfile.cols) = NumSlots
                      /\ \A i \in Slots : Len(outfile.cols[i]) = Len(X)

\* C4: a failure raised by fit_predict never reaches the caller of a runner.
C4_FailureNeverSurfaced == err # "fit_predict raised"

\* C5: do_spectral goes through slots (outer), affinities (middle) and gammas
\* (inner); a slot's accepted result is that of the first attempt that
\* qualified, is never replaced, no cell is attempted for a slot that has an
\* accepted result, and a new slot starts at the first cell.
C5_State ==
    method = "spectral" /\ pc \notin {"start", "load", "error"} =>
        /\ \A i \in Slots :
              /\ hist[i].q => /\ DictHas(res, KeyOf(i))
                              /\ DictGet(res, KeyOf(i)) = Arr(hist[i].want)
              /\ (~hist[i].q /\ pc = "spectral") => ~DictHas(res, KeyOf(i))
        /\ ev.op = "attempt" =>
              LET c == ev.cell
                  p == ev.prev
                  last == p[2] = Len(Affinities) /\ p[3] = Len(Gammas)
              IN  IF p = <<>> THEN c = <<1, 1, 1>>
                  ELSE \/ /\ ~last
                          /\ c = IF p[3] < Len(Gammas)
                                 THEN <<p[1], p[2], p[3] + 1>>
                                 ELSE <<p[1], p[2] + 1, 1>>
                       \/ /\ hist[p[1]].q \/ last
                          /\ c = <<p[1] + 1, 1, 1>>
        /\ pc = "spectral" => /\ ~hist[islot].q
                              /\ ev.op = "attempt" => ev.cell[1] <= islot
        /\ pc = "spectral_end" =>
              /\ ev.cell[1] = NumSlots
              /\ hist[NumSlots].q \/ (ev.cell[2] = Len(Affinities) /\ ev.cell[3] = Len(Gammas))

C5_Step ==
    (pc = "spectral" /\ ev'.op = "attempt") =>
        /\ ~hist[ev'.cell[1]].q
        /\ \A i \in Slots : hist[i].q => hist'[i] = hist[i]

C6_LastWins ==
    method = "birch" /\ pc \notin {"start", "load"} =>
        /\ \A i \in Slots :
              /\ hist[i].q => DictGet(res, KeyOf(i)) = Arr(hist[i].want)
              /\ (~hist[i].q /\ pc \in {"birch", "birch_end"}) =>
                    DictGet(res, KeyOf(i)) = EmptyDict
              /\ pc # "birch" => hist[i].n = FullGrid
        /\ ev.op = "attempt" =>
              LET c == ev.cell
                  p == ev.prev
              IN  IF p = <<>> THEN c = <<1, 1, 1>>
                  ELSE c = IF p[3] < NumSlots THEN <<p[1], p[2], p[3] + 1>>
                           ELSE IF p[2] < Len(Thresholds) THEN <<p[1], p[2] + 1, 1>>
                           ELSE <<p[1] + 1, 1, 1>>
        /\ pc = "birch_end" =>
              ev.cell = <<Len(BranchingFactors), Len(Thresholds), NumSlots>>

C6_Witness ==
    /\ method = "birch"
    /\ pc = "birch_end"
    /\ \A i \in Slots : hist[i].n = FullGrid
    /\ hist[1].q /\ hist[2].q /\ ~hist[NumSlots].q
    /\ DictGet(res, KeyOf(1)) = Arr(<<2, 2>>)
    /\ DictGet(res, KeyOf(2)) = Arr(<<1, 2>>)

\* C7: every fit_predict call is made while a seed scope opened with the
\* run's seed is open, and the generators the process started with are left
\* as they were.
C7_FitInsideSeedScope ==
    ev.op = "attempt" =>
        /\ ev.depth >= 1
        /\ ev.scope = args_seed
        /\ ev.np = SeedRng(args_seed)
        /\ np_random = Ambient
        /\ py_random = Ambient

\* C8: when a set_seed scope with a seed is left, by completion, by a break
\* or by an exception, both generators are in the state they had when the
\* scope was entered, whatever was drawn inside; the exception goes on.
C8_ExitRestoresEntry ==
    (ev.op = "exit" /\ ev.seed # None) =>
        /\ np_random = ev.val[1]
        /\ py_random = ev.val[2]
        /\ ev.kind = "raise" => exc

C8_Witness ==
    /\ ev.op = "exit"
    /\ ev.kind = "raise"
    /\ ev.seed # None
    /\ ev.idx = MaxDraws
    /\ exc
    /\ np_random.pos > 0

\* C9: when a scope with a seed is left inside an outer scope with a seed,
\* both generators are the outer seed's streams advanced by the draws made
\* in the outer scope so far, at every nesting depth.
C9_NestedRestoresOuter ==
    (ev.op = "exit" /\ ev.seed # None /\ Top(lvl).seed # None) =>
        /\ np_random = Advance(SeedRng(Top(lvl).seed), Top(lvl).nNp)
        /\ py_random = Advance(SeedRng(Top(lvl).seed), Top(lvl).nPy)

C9_Witness ==
    /\ ev.op = "exit"
    /\ ev.seed = 43
    /\ ev.idx > 0
    /\ Len(frames) = MaxDepth - 1
    /\ Top(lvl).seed = 42
    /\ Top(lvl).nNp > 0

\* C10: the value of a draw made in a scope with seed s depends on s, the
\* family and the number of draws made in the scope before it only: two
\* executions of the same block under the same seed draw the same values,
\* whatever the generators held before.
C10_SameSeedSameDraws ==
    (ev.op = "draw" /\ ev.seed # None) =>
        ev.val = IF ev.kind = "np"
                 THEN NpValue(Advance(SeedRng(ev.seed), ev.idx))
                 ELSE PyValue(Advance(SeedRng(ev.seed), ev.idx))

C10_Witness ==
    /\ ev.op = "draw"
    /\ ev.kind = "py"
    /\ ev.seed = 42
    /\ ev.idx > 0
    /\ Len(frames) = 1
    /\ frames[1].py_state.pos > 0

\* C11: set_seed(None) saves nothing, seeds nothing and restores nothing: the
\* generators are untouched by entering, a draw in the block is the next
\* value of the stream the block was entered on, and after the exit the
\* generators are that stream advanced by the draws made in the block.
C11_NoneSeedTransparent ==
    /\ (Len(frames) > 0 /\ Top(frames).seed = None) =>
          /\ Top(frames).np_state = NoState
          /\ Top(frames).py_state = NoState
    /\ (ev.op = "enter" /\ ev.seed = None) =>
          /\ np_random = Top(lvl).atNp
          /\ py_random = Top(lvl).atPy
    /\ (ev.op = "draw" /\ ev.seed = None) =>
          ev.val = IF ev.kind = "np"
                   THEN NpValue(Advance(Top(lvl).np0, ev.idx))
                   ELSE PyValue(Advance(Top(lvl).py0, ev.idx))
    /\ (ev.op = "exit" /\ ev.seed = None) =>
          /\ np_random = ExpectedNp
          /\ py_random = ExpectedPy
          /\ np_random.origin = ev.val[1].origin
          /\ py_random.origin = ev.val[2].origin
          /\ (np_random.pos - ev.val[1].pos) + (py_random.pos - ev.val[2].pos) = ev.idx

C11_Witness ==
    /\ ev.op = "exit"
    /\ ev.seed = None
    /\ ev.idx = MaxDraws
    /\ Len(frames) = 0
    /\ np_random.pos > 0
    /\ py_random.pos > 0

C13_GmCollapse ==
    (method = "gm" /\ ev.op = "attempt" /\ pc # "error") =>
        LET i == ev.cell[1]
            K == Ks[i][2]
            shifted == [j \in 1..Len(ev.out) |-> ev.out[j] + 1]
        IN  /\ Keys(res) = [j \in 1..i |-> KeyOf(j)]
            /\ DictGet(res, KeyOf(i)) =
                  IF Cardinality({ev.out[j] : j \in 1..Len(ev.out)}) # K
                  THEN Arr([j \in 1..Len(X) |-> K])
                  ELSE Arr(shifted)

C13_Step ==
    (pc = "gm" /\ pc' # "error") =>
        \A j \in 1..Len(res) : res'[j] = res[j]

\* C13: the collapse rule of do_gm holds after every attempt, and an attempt
\* changes the accepted result of no other slot.
C13_GmCollapseEverySlot == [](C13_GmCollapse) /\ [][C13_Step]_vars

C13_Witness ==
    /\ method = "gm"
    /\ ev.op = "attempt"
    /\ ev.cell = <<2>>
    /\ ev.out = <<0, 0>>
    /\ Ks[2][2] = 2
    /\ DictGet(res, KeyOf(1)) = Arr(<<1, 2>>)
    /\ DictGet(res, KeyOf(2)) = Arr(<<2, 2>>)

\* C14: when a runner has returned, every slot's accepted result is a vector
\* of N labels, each between 1 and the slot's K.
C14_LabelsInRange ==
    (method \in VALID_METHODS /\ pc \in {"returned", "done"}) =>
        \A i \in Slots :
            /\ DictHas(res, KeyOf(i))
            /\ LET r == DictGet(res, KeyOf(i)) IN
                  /\ r.kind = "array"
                  /\ Len(r.v) = Len(X)
                  /\ \A j \in 1..Len(r.v) : r.v[j] >= 1 /\ r.v[j] <= Ks[i][2]

\* C15: with a method outside VALID_METHODS main() ends with the ValueError
\* of the method test, and by then nothing was loaded, no seed scope was
\* opened, no attempt was made, the generators are untouched and no file is
\* written.
C15_InvalidMethodFailsFirst ==
    method \notin VALID_METHODS =>
        /\ pc \in {"start", "error"}
        /\ ev.op \in {"init", "check"}
        /\ pc = "error" => (err = "ValueError: Invalid method" /\ ev.op = "check")
        /\ truth = <<>> /\ X = <<>> /\ Ks = <<>>
        /\ res = <<>> /\ curr = <<>> /\ outfile = <<>>
        /\ hist = NoAttempts
        /\ frames = <<>>
        /\ np_random = Ambient /\ py_random = Ambient

C15_Witness ==
    /\ method = "dbscan"
    /\ pc = "error"
    /\ err = "ValueError: Invalid method"
    /\ outfile = <<>>

C17_State ==
    (method = "spectral" /\ pc \in {"returned", "done", "error"}) =>
        \A i \in Slots :
            ~hist[i].q => /\ DictHas(res, KeyOf(i))
                          /\ DictGet(res, KeyOf(i)) = Arr(Ones(Len(X)))

\* While the slot has no accepted result the sweep goes to the next
\* (affinity, gamma) cell, and leaves the slot after the last cell only.
C17_Step ==
    (pc = "spectral" /\ ~hist'[islot].q) =>
        IF ib < Len(Gammas)
        THEN pc' = "spectral" /\ <<islot', ia', ib'>> = <<islot, ia, ib + 1>>
        ELSE IF ia < Len(Affinities)
        THEN pc' = "spectral" /\ <<islot', ia', ib'>> = <<islot, ia + 1, 1>>
        ELSE IF islot < NumSlots
        THEN pc' = "spectral" /\ <<islot', ia', ib'>> = <<islot + 1, 1, 1>>
        ELSE pc' = "spectral_end"

\* C17: in do_spectral a slot without a qualifying attempt goes through all
\* 4 x 5 cells, ends the sweep without an entry in res, and gets the vector
\* of N ones from the closing loop.
C17_SpectralFallback == [](C17_State) /\ [][C17_Step]_vars

C17_Witness ==
    /\ method = "spectral"
    /\ pc = "done"
    /\ Len(X) = 2
    /\ hist[1].q
    /\ ~hist[2].q
    /\ DictGet(res, KeyOf(1)) = Arr(<<1, 2>>)
    /\ DictGet(res, KeyOf(2)) = Arr(<<1, 1>>)

\* C18: after an attempt of do_spectral, the slot has an accepted result if
\* and only if fit_predict returned and the labels plus one have minimum 1,
\* maximum K, length N and K distinct values, and the result is these
\* labels; otherwise nothing is raised to the caller, no scope is left open
\* and the sweep is at the next cell.
C18_FourPostconditions ==
    (method = "spectral" /\ ev.op = "attempt") =>
        LET i == ev.cell[1]
            K == Ks[i][2]
            v == [j \in 1..Len(ev.out) |-> ev.out[j] + 1]
            idx == 1..Len(v)
            ok == /\ ~ev.raised
                  /\ (\A j \in idx : v[j] >= 1) /\ (\E j \in idx : v[j] = 1)
                  /\ (\A j \in idx : v[j] <= K) /\ (\E j \in idx : v[j] = K)
                  /\ Len(v) = Len(X)
                  /\ Cardinality({v[j] : j \in idx}) = K
            cell == IF ev.cell[3] < Len(Gammas) THEN <<i, ev.cell[2], ev.cell[3] + 1>>
                    ELSE IF ev.cell[2] < Len(Affinities) THEN <<i, ev.cell[2] + 1, 1>>
                    ELSE <<i + 1, 1, 1>>
        IN  /\ ok => (DictHas(res, KeyOf(i)) /\ DictGet(res, KeyOf(i)) = Arr(v))
            /\ ~ok => /\ ~DictHas(res, KeyOf(i))
                       /\ IF cell[1] <= NumSlots
                          THEN pc = "spectral" /\ <<islot, ia, ib>> = cell
                          ELSE pc = "spectral_end"
            /\ err = "none" /\ ~exc /\ frames = <<>>

C18_Witness ==
    /\ method = "spectral"
    /\ ev.op = "attempt"
    /\ ev.cell = <<5, 1, 1>>
    /\ Ks[5][2] = 3
    /\ ~ev.raised
    /\ ev.out = <<0, 2>>
    /\ ~DictHas(res, KeyOf(5))
    /\ DictHas(res, KeyOf(4))
    /\ <<islot, ia, ib>> = <<5, 1, 2>>

C20_GridAttemptsIsolated ==
    method \in {"birch", "spectral"} =>
        /\ np_random = Ambient
        /\ py_random = Ambient
        /\ frames = <<>>
        /\ ~exc
        /\ ev.op = "attempt" =>
              /\ ev.depth = 1
              /\ ev.scope = args_seed
              /\ ev.np = [origin |-> args_seed, pos |-> 0]
              /\ ev.py = [origin |-> args_seed, pos |-> 0]

C20_Witness ==
    /\ method = "spectral"
    /\ pc = "spectral_end"
    /\ hist[1].q
    /\ ~hist[NumSlots].q
    /\ ev.op = "attempt"
    /\ ev.raised
    /\ ev.prev = <<NumSlots, Len(Affinities), Len(Gammas) - 1>>
    /\ ev.np = SeedRng(DefaultSeed)
    /\ np_random = Ambient

====
